---- MODULE Spec2Model ----
(***************************************************************************)
(* gemini-cli: the tool-augmented conversation loop (callGeminiAPI and     *)
(* startCLI of the CLI entry file) and the tool dispatcher                 *)
(* (processToolCall of utils/tools.js).                                    *)
(*                                                                         *)
(* One action is one run-to-completion step of the Node.js event loop: the *)
(* code between two awaits that wait for real I/O (the HTTP response, a    *)
(* stream chunk, a file read).  Awaits of already settled promises only    *)
(* yield to the microtask queue, which runs before the next input event,   *)
(* so they do not end a step.                                              *)
(***************************************************************************)
EXTENDS Integers, Sequences, FiniteSets, TLC

VARIABLES
  argv,                 \* parsed command line: [stream, file]
  proc,                 \* position of startCLI: "probe", "file", "interactive", "exited"
  exitCode,             \* <<>> while the process runs, <<status>> after process.exit
  stderr,               \* diagnostics written with console.error, in order
  prompts,              \* number of rl.prompt() calls
  nLines,               \* number of 'line' events delivered so far
  conversationHistory,  \* the array of startCLI line 268
  fileMessages,         \* the array literal handed to callGeminiAPI in --file mode
  turns,                \* one record per top-level callGeminiAPI call and its re-invocations
  nToolCalls,           \* number of processToolCall invocations
  dispatchLog,          \* the properties of toolImplementations that were called, in order
  spawned,              \* command strings handed to execSync
  fs                    \* file contents the tools see

vars == <<argv, proc, exitCode, stderr, prompts, nLines, conversationHistory,
          fileMessages, turns, nToolCalls, dispatchLog, spawned, fs>>

(***************************************************************************)
(* Bounds of the model.                                                    *)
(***************************************************************************)
MaxLines == 2       \* 'line' events delivered in one run
MaxRounds == 2      \* tool-call responses the remote gives in one run

(***************************************************************************)
(* JavaScript values.  Every value is a tagged record so that values of    *)
(* different JavaScript types can be compared.                             *)
(***************************************************************************)
\* A string; esc is its spelling inside a JSON string literal (equal to s when
\* no character of s needs an escape).
Str2(s, e) == [t |-> "string", s |-> s, esc |-> e]
Str(s) == Str2(s, s)
Null == [t |-> "null"]
Undefined == [t |-> "undefined"]
\* An object: its own enumerable properties, <<key, value>> in insertion order.
Obj(fields) == [t |-> "object", f |-> fields]
Num(n) == [t |-> "number", n |-> n]
Bool(b) == [t |-> "boolean", b |-> b]

\* ToBoolean of the language: '', null and undefined are falsy.
Truthy(v) ==
  CASE v.t = "string" -> v.s # ""
    [] v.t = "null" -> FALSE
    [] v.t = "undefined" -> FALSE
    [] v.t = "number" -> v.n # 0
    [] v.t = "boolean" -> v.b
    [] OTHER -> TRUE

RECURSIVE Concat(_)
\* Array.prototype.join('') of a sequence of strings.
Concat(seq) == IF seq = <<>> THEN "" ELSE Head(seq) \o Concat(Tail(seq))

(***************************************************************************)
(* Property access and indexing with the language's failure rule: reading  *)
(* a property of null or undefined throws a TypeError.                     *)
(***************************************************************************)
Arr(elems) == [t |-> "array", a |-> elems]

CanRead(v) == v.t \notin {"null", "undefined"}

\* v[key] for a value that CanRead.
Get(v, key) ==
  IF v.t # "object" THEN Undefined
  ELSE LET hits == {i \in 1..Len(v.f) : v.f[i][1] = key} IN
    IF hits = {} THEN Undefined
    ELSE v.f[CHOOSE i \in hits : \A j \in hits : i <= j][2]

\* v[0] for a value that CanRead.
First(v) ==
  IF v.t = "array" /\ Len(v.a) > 0 THEN v.a[1] ELSE Undefined

(***************************************************************************)
(* JSON.stringify and JSON.parse.                                          *)
(***************************************************************************)
RECURSIVE Stringify(_)
RECURSIVE StringifyFields(_, _)
RECURSIVE StringifyElems(_, _)

\* The properties of an object, undefined-valued ones omitted; first tells
\* whether a comma is due.
StringifyFields(fields, first) ==
  IF fields = <<>> THEN ""
  ELSE IF Head(fields)[2].t = "undefined" THEN StringifyFields(Tail(fields), first)
  ELSE (IF first THEN "" ELSE ",") \o "\"" \o Head(fields)[1] \o "\":"
       \o Stringify(Head(fields)[2]) \o StringifyFields(Tail(fields), FALSE)

StringifyElems(elems, first) ==
  IF elems = <<>> THEN ""
  ELSE (IF first THEN "" ELSE ",")
       \o (IF Head(elems).t = "undefined" THEN "null" ELSE Stringify(Head(elems)))
       \o StringifyElems(Tail(elems), FALSE)

\* The JSON text of a value other than undefined.
Stringify(v) ==
  CASE v.t = "string" -> "\"" \o v.esc \o "\""
    [] v.t = "number" -> ToString(v.n)
    [] v.t = "boolean" -> (IF v.b THEN "true" ELSE "false")
    [] v.t = "null" -> "null"
    [] v.t = "array" -> "[" \o StringifyElems(v.a, TRUE) \o "]"
    [] v.t = "object" -> "{" \o StringifyFields(v.f, TRUE) \o "}"

\* JSON.stringify(v): undefined for undefined, else a string.  The model
\* never serializes the result a second time, so its esc is left as s.
JSONStringify(v) == IF v.t = "undefined" THEN Undefined ELSE Str(Stringify(v))

\* The argument texts the remote model sends, and JSON.parse of each:
\* [ok |-> TRUE, value] or [ok |-> FALSE, message] (a SyntaxError).
JSONParse(text) ==
  CASE text = "{\"file_path\":\"f\"}" ->
         [ok |-> TRUE, value |-> Obj(<<<<"file_path", Str("f")>>>>)]
    [] text = "{\"file_path\":\"g\"}" ->
         [ok |-> TRUE, value |-> Obj(<<<<"file_path", Str("g")>>>>)]
    [] text = "{\"command\":\"ls\"}" ->
         [ok |-> TRUE, value |-> Obj(<<<<"command", Str("ls")>>>>)]
    [] text = "{\"command\":\"sudo ls\"}" ->
         [ok |-> TRUE, value |-> Obj(<<<<"command", Str("sudo ls")>>>>)]
    [] text = "{}" -> [ok |-> TRUE, value |-> Obj(<<>>)]
    [] text = "null" -> [ok |-> TRUE, value |-> Null]
    [] text = "{bad" ->
         [ok |-> FALSE, message |-> "Unexpected token b in JSON at position 1"]
    [] OTHER -> [ok |-> FALSE, message |-> "Unexpected end of JSON input"]

(***************************************************************************)
(* The streaming wire format.  A wire text is a sequence of atoms; an atom *)
(* is a run of characters of the real text that the decoder cannot tell    *)
(* apart wherever a read boundary falls inside it:                         *)
(*   "data:"  the five characters of the frame prefix                      *)
(*   " "      a space,  "\n"  a newline                                    *)
(*   "{"      {"choices":[{"delta":{"content":"                            *)
(*   "a","b"  one character of text inside the content string              *)
(*   "}"      "}}]}                                                        *)
(*   "[DONE]" the end-of-stream token                                      *)
(*   "F"      {"choices":[{"delta":{"function_call":{"name":"read_file"}}}]}*)
(*   "null" "7" "{}"  the JSON texts null, 7 and {}                        *)
(*   "E"      {"choices":[]}        "D"  {"choices":[{}]}                  *)
(***************************************************************************)
ContentChars == {"a", "b"}
Whitespace == {" ", "\n"}

RECURSIVE SplitBlocks(_, _)
\* String.prototype.split('\n\n'): cur is the piece collected so far.
SplitBlocks(rest, cur) ==
  IF rest = <<>> THEN <<cur>>
  ELSE IF Len(rest) >= 2 /\ rest[1] = "\n" /\ rest[2] = "\n"
       THEN <<cur>> \o SplitBlocks(SubSeq(rest, 3, Len(rest)), <<>>)
       ELSE SplitBlocks(Tail(rest), Append(cur, Head(rest)))

Split(chunk) == SplitBlocks(chunk, <<>>)

RECURSIVE TrimStart(_)
TrimStart(s) ==
  IF s # <<>> /\ Head(s) \in Whitespace THEN TrimStart(Tail(s)) ELSE s

RECURSIVE TrimEnd(_)
TrimEnd(s) ==
  IF s # <<>> /\ s[Len(s)] \in Whitespace THEN TrimEnd(SubSeq(s, 1, Len(s) - 1)) ELSE s

\* String.prototype.trim
Trim(s) == TrimEnd(TrimStart(s))

\* line.startsWith('data:')
StartsWithData(line) == line # <<>> /\ Head(line) = "data:"

\* line.slice(5): the prefix atom stands for five characters.
Slice5(line) == Tail(line)

DeltaDoc(delta) == Obj(<<<<"choices", Arr(<<Obj(<<<<"delta", delta>>>>)>>)>>>>)

\* JSON.parse of a frame payload: [ok |-> TRUE, value] or [ok |-> FALSE].
ParseFrame(data) ==
  IF Len(data) >= 2 /\ data[1] = "{" /\ data[Len(data)] = "}"
     /\ \A i \in 2..(Len(data) - 1) : data[i] \in ContentChars
  THEN [ok |-> TRUE,
        value |-> DeltaDoc(Obj(<<<<"content", Str(Concat(SubSeq(data, 2, Len(data) - 1)))>>>>))]
  ELSE IF data = <<"F">>
  THEN [ok |-> TRUE,
        value |-> DeltaDoc(Obj(<<<<"function_call", Obj(<<<<"name", Str("read_file")>>>>)>>>>))]
  ELSE IF data = <<"null">> THEN [ok |-> TRUE, value |-> Null]
  ELSE IF data = <<"7">> THEN [ok |-> TRUE, value |-> Num(7)]
  ELSE IF data = <<"{}">> THEN [ok |-> TRUE, value |-> Obj(<<>>)]
  ELSE IF data = <<"E">> THEN [ok |-> TRUE, value |-> Obj(<<<<"choices", Arr(<<>>)>>>>)]
  ELSE IF data = <<"D">> THEN [ok |-> TRUE, value |-> Obj(<<<<"choices", Arr(<<Obj(<<>>)>>)>>>>)]
  ELSE [ok |-> FALSE]

\* The block takes the continue of line 137.
IsDone(line) == StartsWithData(line) /\ Trim(Slice5(line)) = <<"[DONE]">>

\* The text one block contributes (lines 133-150): "" when the block is not a
\* data frame, is [DONE], does not parse, throws inside the try, or has no
\* truthy choices[0].delta.content.
BlockText(line) ==
  IF ~StartsWithData(line) THEN ""
  ELSE IF IsDone(line) THEN ""
  ELSE LET data == Trim(Slice5(line))
           p == ParseFrame(data) IN
      IF ~p.ok THEN ""
      ELSE IF ~CanRead(p.value) THEN ""
      ELSE LET choices == Get(p.value, "choices") IN
        IF ~Truthy(choices) THEN ""
        ELSE LET c0 == First(choices) IN
          IF ~CanRead(c0) THEN ""
          ELSE LET delta == Get(c0, "delta") IN
            IF ~CanRead(delta) THEN ""
            ELSE LET content == Get(delta, "content") IN
              IF Truthy(content) THEN content.s ELSE ""

RECURSIVE BlockTexts_StopAtMalformed(_)
\* A loop that ends at the first block that gives no text.
BlockTexts_StopAtMalformed(lines) ==
  IF lines = <<>> THEN <<>>
  ELSE LET txt == BlockText(Head(lines)) IN
    IF txt = "" THEN <<>> ELSE <<txt>> \o BlockTexts_StopAtMalformed(Tail(lines))

RECURSIVE BlockTexts(_)
\* The non-empty texts of the blocks of one chunk, in order (the for loop of
\* line 132).
BlockTexts(lines) ==
  IF lines = <<>> THEN <<>>
  ELSE LET txt == BlockText(Head(lines)) IN
    (IF txt = "" THEN <<>> ELSE <<txt>>) \o BlockTexts(Tail(lines))

\* What one read chunk writes to stdout, in order (lines 129-151).
ChunkEmits(chunk) == BlockTexts(Split(chunk))

\* Some block of the chunk is the end-of-stream frame.
ChunkHasDone(chunk) == \E i \in 1..Len(Split(chunk)) : IsDone(Split(chunk)[i])


(***************************************************************************)
(* utils/tools.js: the tool implementations and processToolCall.           *)
(***************************************************************************)
\* The own properties of toolImplementations.
RegisteredTools ==
  {"read_file", "write_file", "edit_file", "list_directory", "search_code",
   "execute_command"}

\* Properties every object inherits from Object.prototype that are functions.
InheritedFunctions == {"constructor", "toString"}

\* toolImplementations[name]: "own" (a registered implementation),
\* "inheritedFunction", "inheritedObject" (__proto__, the prototype object
\* itself, truthy and not callable) or "undefined".
ToolLookup(name) ==
  IF name \in RegisteredTools THEN "own"
  ELSE IF name \in InheritedFunctions THEN "inheritedFunction"
  ELSE IF name = "__proto__" THEN "inheritedObject"
  ELSE "undefined"

\* if (toolImplementations[name]) of line 390.
ToolFound(name) == ToolLookup(name) # "undefined"

ErrorResult(message) == Obj(<<<<"error", Str(message)>>>>)

DefaultLimit == 2000

Min(a, b) == IF a < b THEN a ELSE b
Max(a, b) == IF a > b THEN a ELSE b

\* Array.prototype.slice(from, to) for integer arguments.
Slice(seq, from, to) ==
  LET n == Len(seq)
      a == IF from < 0 THEN Max(n + from, 0) ELSE Min(from, n)
      b == IF to < 0 THEN Max(n + to, 0) ELSE Min(to, n)
  IN SubSeq(seq, a + 1, b)

RECURSIVE SplitLinesFrom(_, _)
SplitLinesFrom(rest, cur) ==
  IF rest = <<>> THEN <<cur>>
  ELSE IF Head(rest) = "\n" THEN <<cur>> \o SplitLinesFrom(Tail(rest), <<>>)
  ELSE SplitLinesFrom(Tail(rest), Append(cur, Head(rest)))

\* content.split('\n') of a text given as its characters.
SplitLines(content) == SplitLinesFrom(content, <<>>)

RECURSIVE Spaces(_)
Spaces(n) == IF n <= 0 THEN "" ELSE " " \o Spaces(n - 1)

\* String.prototype.padStart(width)
PadStart(str, width) == Spaces(width - Len(str)) \o str

RECURSIVE JoinWith(_, _)
\* Array.prototype.join(sep)
JoinWith(strs, sep) ==
  IF strs = <<>> THEN ""
  ELSE IF Len(strs) = 1 THEN Head(strs)
  ELSE Head(strs) \o sep \o JoinWith(Tail(strs), sep)

\* The result of read_file once the file text is read (lines 176-191).
ReadFileResult(content, offset, limit) ==
  LET lines == SplitLines(content)
      selectedLines == Slice(lines, offset, offset + limit)
      numbered == [i \in 1..Len(selectedLines) |->
                     PadStart(ToString((i - 1) + offset + 1), 6) \o "  "
                       \o Concat(selectedLines[i])]
  IN Obj(<< <<"content", Str2(JoinWith(numbered, "\n"), JoinWith(numbered, "\\n"))>>,
            <<"total_lines", Num(Len(lines))>>,
            <<"displayed_lines", Num(Len(selectedLines))>> >>)

\* A parameter with a default: the default applies to undefined only.
OrDefault(v, d) == IF v.t = "undefined" THEN d ELSE v

\* The characters of the command strings and edit strings of the model.
Chars(str) ==
  CASE str = "ls" -> <<"l", "s">>
    [] str = "" -> <<>>
    [] str = "a" -> <<"a">>
    [] str = "z" -> <<"z">>
    [] str = "c" -> <<"c">>
    [] str = "$&" -> <<"$", "&">>
    [] str = "$$" -> <<"$", "$">>
    [] str = "rm f" -> <<"r", "m", " ", "f">>
    [] str = "rm -rf /" -> <<"r", "m", " ", "-", "r", "f", " ", "/">>
    [] str = "chmod 777 f" -> <<"c", "h", "m", "o", "d", " ", "7", "7", "7", " ", "f">>
    [] str = "sudo ls" -> <<"s", "u", "d", "o", " ", "l", "s">>
    [] str = "rm -rf" -> <<"r", "m", " ", "-", "r", "f">>
    [] str = "sudo" -> <<"s", "u", "d", "o">>
    [] str = "chmod 777" -> <<"c", "h", "m", "o", "d", " ", "7", "7", "7">>
    [] str = "mkfs" -> <<"m", "k", "f", "s">>
    [] str = "dd if=/dev/zero" ->
         <<"d", "d", " ", "i", "f", "=", "/", "d", "e", "v", "/", "z", "e", "r", "o">>
    [] str = ":(){ :|:& };:" ->
         <<":", "(", ")", "{", " ", ":", "|", ":", "&", " ", "}", ";", ":">>

forbiddenCommands ==
  <<"rm -rf", "sudo", "chmod 777", "mkfs", "dd if=/dev/zero", ":(){ :|:& };:">>

\* String.prototype.includes on character sequences.
Includes(hay, needle) ==
  \E i \in 0..(Len(hay) - Len(needle)) : SubSeq(hay, i + 1, i + Len(needle)) = needle

\* The loop of lines 356-362.
Forbidden(command) ==
  \E k \in 1..Len(forbiddenCommands) : Includes(Chars(command), Chars(forbiddenCommands[k]))

(***************************************************************************)
(* The run of processToolCall up to its first wait for I/O.  The outcome   *)
(* is the state of the promise it returned:                                *)
(*   rejected  - it threw (message)                                        *)
(*   fulfilled - it returned value                                         *)
(*   pending   - read_file waits for the file text (path, offset, limit)   *)
(* invoked is the property of toolImplementations that was called, if any, *)
(* and spawn the command handed to execSync, if any.  execOk is whether    *)
(* the subprocess of execute_command succeeds.                             *)
(***************************************************************************)
Fulfilled(v, inv, sp) ==
  [state |-> "fulfilled", value |-> v, invoked |-> inv, spawn |-> sp]
Rejected(msg) ==
  [state |-> "rejected", message |-> msg, invoked |-> <<>>, spawn |-> <<>>]

\* The TypeError of destructuring null or undefined for the property prop.
DestructureMessage(v, prop) ==
  IF v.t = "null"
  THEN "Cannot destructure property '" \o prop \o "' of 'object null' as it is null."
  ELSE "Cannot destructure property '" \o prop \o "' of 'undefined' as it is undefined."

\* read_file up to its first await (lines 168-176).
read_file(parsedArgs, files) ==
  IF ~CanRead(parsedArgs)
  THEN \* destructuring null or undefined throws before the try block
       [thrown |-> TRUE,
        message |-> DestructureMessage(parsedArgs, "file_path")]
  ELSE LET file_path == Get(parsedArgs, "file_path")
           offset == OrDefault(Get(parsedArgs, "offset"), Num(0))
           limit == OrDefault(Get(parsedArgs, "limit"), Num(DefaultLimit))
       IN IF file_path.t # "string"
          THEN [thrown |-> FALSE, pending |-> FALSE,
                value |-> ErrorResult("Error reading file: The \"path\" argument must be of type string. Received "
                                      \o file_path.t)]
          ELSE IF file_path.s \notin DOMAIN files
          THEN [thrown |-> FALSE, pending |-> FALSE,
                value |-> ErrorResult("File not found: " \o file_path.s)]
          ELSE [thrown |-> FALSE, pending |-> TRUE,
                wait |-> [file_path |-> file_path.s, offset |-> offset.n, limit |-> limit.n]]

\* execute_command with the subprocess started ahead of the deny-list check.
execute_command_SpawnFirst(parsedArgs, execOk) ==
  IF ~CanRead(parsedArgs)
  THEN [thrown |-> TRUE,
        message |-> DestructureMessage(parsedArgs, "command"),
        spawn |-> <<>>]
  ELSE LET command == Get(parsedArgs, "command") IN
    IF command.t # "string"
    THEN [thrown |-> FALSE, spawn |-> <<>>,
          value |-> Obj(<< <<"error", Str("Command execution failed: The \"command\" argument must be of type string")>>,
                           <<"command", command>> >>)]
    ELSE IF Forbidden(command.s)
    THEN [thrown |-> FALSE, spawn |-> <<command.s>>,
          value |-> ErrorResult("Command not allowed for security reasons: " \o command.s)]
    ELSE [thrown |-> FALSE, spawn |-> <<command.s>>,
          value |-> Obj(<< <<"output", Str("out")>>, <<"command", command>> >>)]

\* execute_command (lines 346-380); execSync is synchronous.
execute_command(parsedArgs, execOk) ==
  IF ~CanRead(parsedArgs)
  THEN [thrown |-> TRUE,
        message |-> DestructureMessage(parsedArgs, "command"),
        spawn |-> <<>>]
  ELSE LET command == Get(parsedArgs, "command") IN
    IF command.t # "string"
    THEN [thrown |-> FALSE, spawn |-> <<>>,
          value |-> Obj(<< <<"error", Str("Command execution failed: Cannot read properties of undefined (reading 'includes')")>>,
                           <<"command", command>> >>)]
    ELSE IF Forbidden(command.s)
    THEN [thrown |-> FALSE, spawn |-> <<>>,
          value |-> ErrorResult("Command not allowed for security reasons: " \o command.s)]
    ELSE IF execOk
    THEN [thrown |-> FALSE, spawn |-> <<command.s>>,
          value |-> Obj(<< <<"output", Str("out")>>, <<"command", command>> >>)]
    ELSE [thrown |-> FALSE, spawn |-> <<command.s>>,
          value |-> Obj(<< <<"error", Str("Command execution failed: Command failed: " \o command.s)>>,
                           <<"command", command>> >>)]

\* hay.indexOf(needle) on character sequences: -1 when needle does not occur.
IndexOf(hay, needle) ==
  IF Includes(hay, needle)
  THEN CHOOSE i \in 0..(Len(hay) - Len(needle)) :
         /\ SubSeq(hay, i + 1, i + Len(needle)) = needle
         /\ \A j \in 0..(i - 1) : SubSeq(hay, j + 1, j + Len(needle)) # needle
  ELSE 0 - 1

RECURSIVE GetSubstitution(_, _, _, _)
\* The replacement text String.prototype.replace builds from a replacement
\* string when the pattern is a string: $$ is a dollar sign, $& the matched
\* text, $` the text before the match, $' the text after it; any other
\* character, a dollar sign before anything else included, stands for itself.
GetSubstitution(repl, matched, before, after) ==
  IF repl = <<>> THEN <<>>
  ELSE IF Head(repl) = "$" /\ Len(repl) >= 2 /\ repl[2] \in {"$", "&", "`", "'"}
  THEN (CASE repl[2] = "$" -> <<"$">>
          [] repl[2] = "&" -> matched
          [] repl[2] = "`" -> before
          [] repl[2] = "'" -> after)
       \o GetSubstitution(SubSeq(repl, 3, Len(repl)), matched, before, after)
  ELSE <<Head(repl)>> \o GetSubstitution(Tail(repl), matched, before, after)

\* content.replace(old_string, new_string) of line 235, both arguments strings.
Replace(content, old_string, new_string) ==
  LET at == IndexOf(content, old_string) IN
  IF at < 0 THEN content
  ELSE LET before == SubSeq(content, 1, at)
           after == SubSeq(content, at + Len(old_string) + 1, Len(content))
       IN before \o GetSubstitution(new_string, old_string, before, after) \o after

\* edit_file up to its first await (lines 217-225).
edit_file(parsedArgs, files) ==
  IF ~CanRead(parsedArgs)
  THEN [thrown |-> TRUE,
        message |-> DestructureMessage(parsedArgs, "file_path")]
  ELSE LET file_path == Get(parsedArgs, "file_path") IN
    IF file_path.t # "string"
    THEN [thrown |-> FALSE, pending |-> FALSE,
          value |-> ErrorResult("Error editing file: The \"path\" argument must be of type string. Received "
                                \o file_path.t)]
    ELSE IF file_path.s \notin DOMAIN files
    THEN [thrown |-> FALSE, pending |-> FALSE,
          value |-> ErrorResult("File not found: " \o file_path.s)]
    ELSE [thrown |-> FALSE, pending |-> TRUE,
          wait |-> [file_path |-> file_path.s,
                    old_string |-> Get(parsedArgs, "old_string"),
                    new_string |-> Get(parsedArgs, "new_string")]]

\* edit_file without the test of line 228: the text goes to replace and to
\* the write whether old_string occurs in it or not.
edit_file_read_NoCheck(wait, files, ioOk) ==
  IF ~(ioOk /\ wait.file_path \in DOMAIN files)
  THEN [done |-> TRUE,
        value |-> ErrorResult("Error editing file: ENOENT: no such file or directory, open '"
                              \o wait.file_path \o "'")]
  ELSE IF wait.old_string.t # "string"
  THEN [done |-> FALSE, newContent |-> files[wait.file_path]]
  ELSE [done |-> FALSE,
        newContent |-> Replace(files[wait.file_path], Chars(wait.old_string.s),
                               Chars(wait.new_string.s))]

\* edit_file from the await of line 225 to the await of line 236: the file
\* text was read (or the read failed); the result is final (done) or the new
\* content is handed to writeFileAsync.  old_string is a string or undefined
\* (includes(undefined) looks for the text 'undefined', which no file of the
\* model holds, and undefined.substring then throws); new_string is a string.
edit_file_read(wait, files, ioOk) ==
  IF ~(ioOk /\ wait.file_path \in DOMAIN files)
  THEN [done |-> TRUE,
        value |-> ErrorResult("Error editing file: ENOENT: no such file or directory, open '"
                              \o wait.file_path \o "'")]
  ELSE LET content == files[wait.file_path] IN
    IF wait.old_string.t # "string"
    THEN [done |-> TRUE,
          value |-> ErrorResult("Error editing file: Cannot read properties of undefined (reading 'substring')")]
    ELSE IF ~Includes(content, Chars(wait.old_string.s))
    THEN [done |-> TRUE,
          value |-> ErrorResult("Text not found in file: " \o wait.old_string.s)]
    ELSE [done |-> FALSE,
          newContent |-> Replace(content, Chars(wait.old_string.s), Chars(wait.new_string.s))]

\* edit_file after the await of line 236 (lines 236-245): the write was done
\* or failed.
edit_file_written(wait, ioOk) ==
  IF ioOk
  THEN Obj(<< <<"success", Bool(TRUE)>>,
              <<"message", Str("File edited successfully: " \o wait.file_path)>>,
              <<"replacements", Num(1)>> >>)
  ELSE ErrorResult("Error editing file: EACCES: permission denied, open '"
                   \o wait.file_path \o "'")

\* parsedArgs of line 388: [ok |-> TRUE, value] or [ok |-> FALSE, message].
ParseArguments(args) ==
  IF args.t = "string" THEN JSONParse(args.s) ELSE [ok |-> TRUE, value |-> args]

\* A catch block that builds the error object and does not return it.
ToolExecutionError_Lost(message) == Undefined

\* The catch of lines 393-395.
ToolExecutionError(message) == ErrorResult("Tool execution error: " \o message)

\* The else branch of lines 396-398.
UnknownTool(name) == ErrorResult("Unknown tool: " \o name)

\* Calling an inherited function as toolImplementations[name](parsedArgs).
InheritedCall(name, parsedArgs) ==
  IF name = "constructor"
  THEN \* Object(value): the value itself for an object, else a fresh wrapper
       IF parsedArgs.t \in {"object", "array"} THEN parsedArgs ELSE Obj(<<>>)
  ELSE Str("[object Object]")

processToolCall(name, args, files, execOk) ==
  LET parsed == ParseArguments(args) IN
  IF ~parsed.ok THEN Rejected(parsed.message)
  ELSE IF ~ToolFound(name) THEN Fulfilled(UnknownTool(name), <<>>, <<>>)
  ELSE IF ToolLookup(name) = "inheritedObject"
  THEN Fulfilled(ToolExecutionError("toolImplementations[name] is not a function"),
                 <<>>, <<>>)
  ELSE IF ToolLookup(name) = "inheritedFunction"
  THEN Fulfilled(InheritedCall(name, parsed.value), <<name>>, <<>>)
  ELSE IF name = "read_file"
  THEN LET r == read_file(parsed.value, files) IN
       IF r.thrown THEN Fulfilled(ToolExecutionError(r.message), <<name>>, <<>>)
       ELSE IF r.pending
       THEN [state |-> "pending", wait |-> r.wait, invoked |-> <<name>>, spawn |-> <<>>]
       ELSE Fulfilled(r.value, <<name>>, <<>>)
  ELSE IF name = "edit_file"
  THEN LET r == edit_file(parsed.value, files) IN
       IF r.thrown THEN Fulfilled(ToolExecutionError(r.message), <<name>>, <<>>)
       ELSE IF r.pending
       THEN [state |-> "pending", wait |-> r.wait, invoked |-> <<name>>, spawn |-> <<>>]
       ELSE Fulfilled(r.value, <<name>>, <<>>)
  ELSE LET r == execute_command(parsed.value, execOk) IN
       IF r.thrown THEN Fulfilled(ToolExecutionError(r.message), <<name>>, <<>>)
       ELSE Fulfilled(r.value, <<name>>, r.spawn)

\* read_file after the await of line 176: the text was read, or the read
\* failed and the catch of line 193 built the result.
read_file_done(wait, files, ioOk) ==
  IF ioOk /\ wait.file_path \in DOMAIN files
  THEN ReadFileResult(files[wait.file_path], wait.offset, wait.limit)
  ELSE ErrorResult("Error reading file: ENOENT: no such file or directory, open '"
                   \o wait.file_path \o "'")


(***************************************************************************)
(* The CLI: messages, inputs of the environment, and the initial state.    *)
(***************************************************************************)
UserMessage(text) == [role |-> "user", content |-> Str(text)]
AssistantMessage(content) == [role |-> "assistant", content |-> content]

\* The two pushes in the opposite order.
ToolCallMessages_Swapped(content, functionCall, toolResult) ==
  << [role |-> "function", name |-> functionCall.name,
      content |-> JSONStringify(toolResult)],
     [role |-> "assistant", content |-> content, function_call |-> functionCall] >>

\* Only the second push: the function message without the assistant message
\* that holds the call.
ToolCallMessages_ResultOnly(content, functionCall, toolResult) ==
  << [role |-> "function", name |-> functionCall.name,
      content |-> JSONStringify(toolResult)] >>

\* The two pushes with a message of the assistant's text between them.
ToolCallMessages_Separated(content, functionCall, toolResult) ==
  << [role |-> "assistant", content |-> content, function_call |-> functionCall],
     [role |-> "assistant", content |-> content],
     [role |-> "function", name |-> functionCall.name,
      content |-> JSONStringify(toolResult)] >>

\* The two messages.push calls of lines 182-193.
ToolCallMessages(content, functionCall, toolResult) ==
  << [role |-> "assistant", content |-> content, function_call |-> functionCall],
     [role |-> "function", name |-> functionCall.name,
      content |-> JSONStringify(toolResult)] >>

\* The merge of line 89 written the other way round: the defaults win over
\* the options and the requests follow the inverse of the command line flag.
RequestStream_Inverted(options) == ~argv.stream

\* requestOptions.stream of line 89: options.stream overrides argv.stream.
\* options is "none" for the top-level call and "nostream" for {stream: false}.
RequestStream(options) == IF options = "nostream" THEN FALSE ELSE argv.stream

\* The catalog sent with every request: the names of toolDefinitions, in
\* the order of the array.
toolDefinitions ==
  <<"read_file", "write_file", "edit_file", "list_directory", "search_code",
    "execute_command">>

\* A re-invocation whose options override the catalog with an empty one.
RequestTools_Dropped(options) == IF options = "nostream" THEN <<>> ELSE toolDefinitions

\* requestOptions.tools of line 89: no caller passes tools in options, so the
\* default of line 85 stands for the top-level call and for {stream: false}.
RequestTools(options) == toolDefinitions

\* A catch that returns the error text instead of null.
CatchReturn_Message(message) == Str(message)

\* The catch of lines 204-207 returns null.
CatchReturn(message) == Null

\* Lines 286-289: the handler appends the response when it is truthy.
HandlerAppend(response) ==
  IF Truthy(response) THEN <<AssistantMessage(response)>> ELSE <<>>

\* line.trim() and toLowerCase() on the input lines of the model.
TrimLine(line) ==
  CASE line = "  " -> ""
    [] line = " Exit " -> "Exit"
    [] OTHER -> line
ToLowerCase(str) == IF str = "Exit" THEN "exit" ELSE str

UserLines == {"hi", "  ", " Exit "}

\* The --file argument: absent, an existing file, an existing directory, or
\* a path that does not exist.
FileArgs == {"none", "f", "d", "missing"}

Files0 == [p \in {"f"} |-> <<"h", "i", "\n", "y", "\n">>]

\* Final texts of a non-streaming response.
TextContents == {Str("ok"), Str("")}

\* function_call objects the remote model may send.
FunctionCalls ==
  { [name |-> "read_file", arguments |-> Str("{\"file_path\":\"f\"}")],
    [name |-> "read_file", arguments |-> Obj(<<<<"file_path", Str("g")>>>>)],
    [name |-> "read_file", arguments |-> Str("{bad")],
    [name |-> "read_file", arguments |-> Null],
    [name |-> "execute_command", arguments |-> Str("{\"command\":\"ls\"}")],
    [name |-> "constructor", arguments |-> Str("{}")],
    [name |-> "__proto__", arguments |-> Str("{}")],
    [name |-> "nope", arguments |-> Str("{}")] }

\* One frame and its blank-line separator; the space after the prefix is
\* optional on the wire.
Frame(payload) == <<"data:">> \o payload \o <<"\n", "\n">>

\* Response bodies of a streaming request.
Wires ==
  { Frame(<<"{", "a", "}">>) \o Frame(<<"{", "b", "}">>) \o Frame(<<"[DONE]">>),
    Frame(<<" ", "F">>) \o Frame(<<"[DONE]">>) \o Frame(<<"{", "a", "}">>) }

\* The longest response body, in atoms.
MaxWire == CHOOSE n \in 0..64 : (\E w \in Wires : Len(w) = n) /\ \A w \in Wires : Len(w) <= n

\* Ways a remote call fails: fetch rejects, the status is not 2xx, the
\* streaming response has no body.
FailureKinds == {"unreachable", "status", "nobody"}

FailureMessage(kind) ==
  CASE kind = "unreachable" ->
         "request to http://localhost:8000/v1/chat/completions failed, reason: connect ECONNREFUSED"
    [] kind = "status" -> "API Error: Internal Server Error"
    [] kind = "nobody" -> "No response body received for streaming"

NewTurn(isFile, messages) ==
  [pc |-> "fetch", file |-> isFile, stream |-> RequestStream("none"),
   tools |-> RequestTools("none"), round |-> 0,
   sent |-> messages, body |-> <<>>, wire |-> <<>>, sawDone |-> FALSE,
   fullContent |-> "", emitted |-> <<>>,
   functionCall |-> <<>>, content |-> Null, tool |-> <<>>,
   ret |-> "", result |-> <<>>]

Init ==
  /\ argv \in [stream : BOOLEAN, file : FileArgs]
  /\ proc = "probe"
  /\ exitCode = <<>>
  /\ stderr = <<>>
  /\ prompts = 0
  /\ nLines = 0
  /\ conversationHistory = <<>>
  /\ fileMessages = <<>>
  /\ turns = <<>>
  /\ nToolCalls = 0
  /\ dispatchLog = <<>>
  /\ spawned = <<>>
  /\ fs = Files0

(***************************************************************************)
(* startCLI                                                                *)
(***************************************************************************)
\* The catch of the health probe with process.exit(0).
ProbeFails_Status0 ==
  /\ proc = "probe"
  /\ stderr' = stderr \o <<"Error: Cannot connect to proxy server at http://localhost:8000",
                           "Please start the proxy server first with: npm run start-proxy">>
  /\ proc' = "exited"
  /\ exitCode' = <<0>>
  /\ UNCHANGED <<argv, prompts, nLines, conversationHistory, fileMessages, turns,
                 nToolCalls, dispatchLog, spawned, fs>>

\* Lines 227-231: the health probe throws; the process exits with status 1.
ProbeFails ==
  /\ proc = "probe"
  /\ stderr' = stderr \o <<"Error: Cannot connect to proxy server at http://localhost:8000",
                           "Please start the proxy server first with: npm run start-proxy">>
  /\ proc' = "exited"
  /\ exitCode' = <<1>>
  /\ UNCHANGED <<argv, prompts, nLines, conversationHistory, fileMessages, turns,
                 nToolCalls, dispatchLog, spawned, fs>>

HealthWarning ==
  <<"Warning: Gemini API not properly initialized at the proxy server.",
    "Please check that GEMINI_API_KEY is set in the .env file.">>

\* Lines 220-226 and 233-269: the probe answers; then --file mode or the
\* conversation loop starts.
ProbeAnswers(api_initialized) ==
  /\ proc = "probe"
  /\ LET err == IF api_initialized THEN stderr ELSE stderr \o HealthWarning IN
     IF argv.file = "missing"
     THEN /\ stderr' = Append(err, "Error: File or directory not found: missing")
          /\ proc' = "exited"
          /\ exitCode' = <<1>>
          /\ UNCHANGED <<prompts, conversationHistory, fileMessages, turns>>
     ELSE IF argv.file # "none"
     THEN LET text == IF argv.file = "f"
                      THEN "I'm providing this file content for analysis: f\n\n"
                           \o Concat(fs["f"])
                      ELSE "I'm providing this directory structure for analysis: d\n\n"
                           \o "f (file)\n"
              msgs == <<UserMessage(text)>>
          IN /\ stderr' = err
             /\ proc' = "file"
             /\ fileMessages' = msgs
             /\ turns' = <<NewTurn(TRUE, msgs)>>
             /\ UNCHANGED <<exitCode, prompts, conversationHistory>>
     ELSE /\ stderr' = err
          /\ proc' = "interactive"
          /\ conversationHistory' = <<>>
          /\ prompts' = prompts + 1
          /\ UNCHANGED <<exitCode, fileMessages, turns>>
  /\ UNCHANGED <<argv, nLines, nToolCalls, dispatchLog, spawned, fs>>

\* Lines 271-293: a 'line' event, up to the await of line 284.
Line(line) ==
  /\ proc = "interactive"
  /\ nLines < MaxLines
  /\ nLines' = nLines + 1
  /\ LET userInput == TrimLine(line) IN
     IF ToLowerCase(userInput) = "exit"
     THEN /\ proc' = "exited"
          /\ exitCode' = <<0>>
          /\ UNCHANGED <<conversationHistory, turns, prompts>>
     ELSE IF userInput # ""
     THEN LET msgs == Append(conversationHistory, UserMessage(userInput)) IN
          /\ conversationHistory' = msgs
          /\ turns' = Append(turns, NewTurn(FALSE, msgs))
          /\ UNCHANGED <<proc, exitCode, prompts>>
     ELSE /\ prompts' = prompts + 1
          /\ UNCHANGED <<proc, exitCode, conversationHistory, turns>>
  /\ UNCHANGED <<argv, stderr, fileMessages, nToolCalls, dispatchLog, spawned, fs>>

\* Lines 295-298: the input closes.
Close ==
  /\ proc = "interactive"
  /\ proc' = "exited"
  /\ exitCode' = <<0>>
  /\ UNCHANGED <<argv, stderr, prompts, nLines, conversationHistory, fileMessages,
                 turns, nToolCalls, dispatchLog, spawned, fs>>


(***************************************************************************)
(* callGeminiAPI                                                           *)
(***************************************************************************)
Running == proc \in {"interactive", "file"}

\* The array callGeminiAPI was given: the --file literal or the history.
Messages(tr) == IF tr.file THEN fileMessages ELSE conversationHistory

\* An assignment to the last element in place of a push: the messages take
\* the place of the newest message of the array.
Push_OverLast(tr, msgs) ==
  IF tr.file
  THEN fileMessages' = SubSeq(fileMessages, 1, Len(fileMessages) - 1) \o msgs
       /\ UNCHANGED conversationHistory
  ELSE conversationHistory' = SubSeq(conversationHistory, 1, Len(conversationHistory) - 1) \o msgs
       /\ UNCHANGED fileMessages

Push(tr, msgs) ==
  IF tr.file
  THEN fileMessages' = fileMessages \o msgs /\ UNCHANGED conversationHistory
  ELSE conversationHistory' = conversationHistory \o msgs /\ UNCHANGED fileMessages

\* A --file mode that reports a failed call by its exit status.
Return_FailureStatus(t, tr, ret, response) ==
  /\ turns' = [turns EXCEPT ![t] = [tr EXCEPT !.pc = "done", !.ret = ret,
                                               !.result = <<response>>,
                                               !.wire = <<>>, !.fullContent = "",
                                               !.sawDone = FALSE]]
  /\ IF tr.file
     THEN /\ proc' = "exited"
          /\ exitCode' = IF response = Null THEN <<1>> ELSE <<0>>
          /\ UNCHANGED <<conversationHistory, fileMessages, prompts>>
     ELSE /\ conversationHistory' = conversationHistory \o HandlerAppend(response)
          /\ prompts' = prompts + 1
          /\ UNCHANGED <<proc, exitCode, fileMessages>>

\* callGeminiAPI returns response to its top-level caller, which then runs to
\* its end: lines 286-292 of the 'line' handler, or process.exit(0) of line
\* 260 in --file mode.  tr is the turn's record as the step leaves it; the
\* locals of the streaming branch (reader, fullContent) end with the call.
Return(t, tr, ret, response) ==
  /\ turns' = [turns EXCEPT ![t] = [tr EXCEPT !.pc = "done", !.ret = ret,
                                               !.result = <<response>>,
                                               !.wire = <<>>, !.fullContent = "",
                                               !.sawDone = FALSE]]
  /\ IF tr.file
     THEN /\ proc' = "exited"
          /\ exitCode' = <<0>>
          /\ UNCHANGED <<conversationHistory, fileMessages, prompts>>
     ELSE /\ conversationHistory' = conversationHistory \o HandlerAppend(response)
          /\ prompts' = prompts + 1
          /\ UNCHANGED <<proc, exitCode, fileMessages>>

\* Lines 204-207: an exception of the try block is reported and swallowed.
Caught(t, tr, message) ==
  /\ stderr' = Append(stderr, "Error: " \o message)
  /\ Return(t, tr, "catch", CatchReturn(message))

\* A limit of one tool-call round for a turn: a second tool call ends it.
Reinvoke_Capped(t, tr, toolResult) ==
  IF tr.round >= 1
  THEN Return(t, tr, "cap", Str("Too many tool calls"))
  ELSE LET msgs == ToolCallMessages(tr.content, tr.functionCall[1], toolResult) IN
       /\ Push(tr, msgs)
       /\ turns' = [turns EXCEPT ![t] =
                      [tr EXCEPT !.pc = "fetch", !.stream = RequestStream("nostream"),
                                 !.tools = RequestTools("nostream"),
                                 !.round = tr.round + 1,
                                 !.sent = Messages(tr) \o msgs]]
       /\ UNCHANGED <<proc, exitCode, prompts>>

\* Lines 181-196: the tool result is known; both messages are pushed and the
\* API is called again with {stream: false}.
Reinvoke(t, tr, toolResult) ==
  LET msgs == ToolCallMessages(tr.content, tr.functionCall[1], toolResult) IN
  /\ Push(tr, msgs)
  /\ turns' = [turns EXCEPT ![t] =
                 [tr EXCEPT !.pc = "fetch", !.stream = RequestStream("nostream"),
                            !.tools = RequestTools("nostream"),
                            !.round = tr.round + 1,
                            !.sent = Messages(tr) \o msgs]]
  /\ UNCHANGED <<proc, exitCode, prompts>>

\* Lines 92-117: the remote call fails before any response data is used.
RemoteFails(t, kind) ==
  /\ Running
  /\ t \in 1..Len(turns)
  /\ turns[t].pc = "fetch"
  /\ kind = "nobody" => turns[t].stream
  /\ Caught(t, turns[t], FailureMessage(kind))
  /\ UNCHANGED <<argv, nLines, nToolCalls, dispatchLog, spawned, fs>>

\* Lines 114-123: a streaming response arrives; its body is wire.
StreamOpens(t, wire) ==
  /\ Running
  /\ t \in 1..Len(turns)
  /\ turns[t].pc = "fetch"
  /\ turns[t].stream
  /\ turns' = [turns EXCEPT ![t].pc = "stream", ![t].body = wire, ![t].wire = wire]
  /\ UNCHANGED <<argv, proc, exitCode, stderr, prompts, nLines, conversationHistory,
                 fileMessages, nToolCalls, dispatchLog, spawned, fs>>

\* Lines 125-152: one reader.read() that delivers the next k atoms.
StreamRead(t, k) ==
  /\ Running
  /\ t \in 1..Len(turns)
  /\ turns[t].pc = "stream"
  /\ k \in 1..Len(turns[t].wire)
  /\ LET tr == turns[t]
         chunk == SubSeq(tr.wire, 1, k)
         emits == ChunkEmits(chunk)
     IN turns' = [turns EXCEPT ![t].wire = SubSeq(tr.wire, k + 1, Len(tr.wire)),
                               ![t].sawDone = tr.sawDone \/ ChunkHasDone(chunk),
                               ![t].emitted = tr.emitted \o emits,
                               ![t].fullContent = tr.fullContent \o Concat(emits)]
  /\ UNCHANGED <<argv, proc, exitCode, stderr, prompts, nLines, conversationHistory,
                 fileMessages, nToolCalls, dispatchLog, spawned, fs>>

\* Lines 125-126 and 155-156: the reader reports done; fullContent is returned.
StreamEnds(t) ==
  /\ Running
  /\ t \in 1..Len(turns)
  /\ turns[t].pc = "stream"
  /\ turns[t].wire = <<>>
  /\ Return(t, turns[t], "stream", Str(turns[t].fullContent))
  /\ UNCHANGED <<argv, stderr, nLines, nToolCalls, dispatchLog, spawned, fs>>

\* Line 125: reader.read() rejects (the connection breaks mid-stream).
StreamBreaks(t) ==
  /\ Running
  /\ t \in 1..Len(turns)
  /\ turns[t].pc = "stream"
  /\ Caught(t, turns[t], "Premature close")
  /\ UNCHANGED <<argv, nLines, nToolCalls, dispatchLog, spawned, fs>>

\* Lines 159-164 and 199-202: a non-streaming response without function_call.
ResponseText(t, content) ==
  /\ Running
  /\ t \in 1..Len(turns)
  /\ turns[t].pc = "fetch"
  /\ ~turns[t].stream
  /\ Return(t, [turns[t] EXCEPT !.content = content, !.functionCall = <<>>,
                                !.tool = <<>>],
            "text", content)
  /\ UNCHANGED <<argv, stderr, nLines, nToolCalls, dispatchLog, spawned, fs>>

\* Lines 159-196: a non-streaming response with a function_call;
\* processToolCall runs up to its first wait.
ResponseToolCall(t, functionCall, content, execOk) ==
  /\ Running
  /\ t \in 1..Len(turns)
  /\ turns[t].pc = "fetch"
  /\ ~turns[t].stream
  /\ nToolCalls < MaxRounds
  /\ nToolCalls' = nToolCalls + 1
  /\ LET p == processToolCall(functionCall.name, functionCall.arguments, fs, execOk)
         tr == [turns[t] EXCEPT !.content = content,
                                !.functionCall = <<functionCall>>,
                                !.tool = <<p>>]
     IN /\ dispatchLog' = dispatchLog \o p.invoked
        /\ spawned' = spawned \o p.spawn
        /\ CASE p.state = "rejected" ->
                  Caught(t, tr, p.message)
             [] p.state = "fulfilled" ->
                  Reinvoke(t, tr, p.value) /\ UNCHANGED stderr
             [] p.state = "pending" ->
                  /\ turns' = [turns EXCEPT ![t] =
                                 [tr EXCEPT !.pc = IF functionCall.name = "edit_file"
                                                   THEN "edit_read" ELSE "tool"]]
                  /\ UNCHANGED <<proc, exitCode, stderr, prompts, conversationHistory,
                                 fileMessages>>
  /\ UNCHANGED <<argv, nLines, fs>>

\* Line 176 onwards of read_file, then lines 177-196 of callGeminiAPI: the
\* awaited file read settles.
ToolSettles(t, ioOk) ==
  /\ Running
  /\ t \in 1..Len(turns)
  /\ turns[t].pc = "tool"
  /\ LET value == read_file_done(turns[t].tool[1].wait, fs, ioOk)
         tr == [turns[t] EXCEPT !.tool = <<Fulfilled(value, turns[t].tool[1].invoked, <<>>)>>]
     IN Reinvoke(t, tr, value)
  /\ UNCHANGED <<argv, stderr, nLines, nToolCalls, dispatchLog, spawned, fs>>

\* Lines 225-236 of edit_file: the awaited file read settles.  The edit ends
\* here with an error (and callGeminiAPI goes on with lines 177-196), or the
\* new content is handed to writeFileAsync.
EditRead(t, ioOk) ==
  /\ Running
  /\ t \in 1..Len(turns)
  /\ turns[t].pc = "edit_read"
  /\ LET p == turns[t].tool[1]
         r == edit_file_read(p.wait, fs, ioOk)
     IN IF r.done
        THEN Reinvoke(t, [turns[t] EXCEPT !.tool = <<Fulfilled(r.value, p.invoked, <<>>)>>],
                      r.value)
        ELSE /\ turns' = [turns EXCEPT ![t].pc = "edit_write",
                                       ![t].tool = <<[state |-> "pending", wait |-> p.wait,
                                                      newContent |-> r.newContent,
                                                      invoked |-> p.invoked,
                                                      spawn |-> <<>>]>>]
             /\ UNCHANGED <<proc, exitCode, prompts, conversationHistory, fileMessages>>
  /\ UNCHANGED <<argv, stderr, nLines, nToolCalls, dispatchLog, spawned, fs>>

\* Lines 236-245 of edit_file, then lines 177-196 of callGeminiAPI: the
\* awaited write settles.
EditWrite(t, ioOk) ==
  /\ Running
  /\ t \in 1..Len(turns)
  /\ turns[t].pc = "edit_write"
  /\ LET p == turns[t].tool[1]
         value == edit_file_written(p.wait, ioOk)
     IN /\ fs' = IF ioOk THEN [fs EXCEPT ![p.wait.file_path] = p.newContent] ELSE fs
        /\ Reinvoke(t, [turns[t] EXCEPT !.tool = <<Fulfilled(value, p.invoked, <<>>)>>], value)
  /\ UNCHANGED <<argv, stderr, nLines, nToolCalls, dispatchLog, spawned>>

Next ==
  \/ ProbeFails
  \/ \E b \in BOOLEAN : ProbeAnswers(b)
  \/ \E line \in UserLines : Line(line)
  \/ Close
  \/ \E t \in 1..Len(turns), kind \in FailureKinds : RemoteFails(t, kind)
  \/ \E t \in 1..Len(turns), wire \in Wires : StreamOpens(t, wire)
  \/ \E t \in 1..Len(turns), k \in 1..MaxWire : StreamRead(t, k)
  \/ \E t \in 1..Len(turns) : StreamEnds(t)
  \/ \E t \in 1..Len(turns) : StreamBreaks(t)
  \/ \E t \in 1..Len(turns), content \in TextContents : ResponseText(t, content)
  \/ \E t \in 1..Len(turns), fc \in FunctionCalls, execOk \in BOOLEAN :
       ResponseToolCall(t, fc, Null, execOk)
  \/ \E t \in 1..Len(turns), ioOk \in BOOLEAN : ToolSettles(t, ioOk)

Spec == Init /\ [][Next]_vars

(***************************************************************************)
(* The decoder under a streaming session: one user line has been read and  *)
(* the streaming response to its request has arrived; its body is up to    *)
(* MaxFrames frames, well-formed or not, and the end-of-stream frame.      *)
(***************************************************************************)
MaxFrames == 2

\* Frame payloads: two text deltas (one after a space), the JSON texts null
\* and 7, objects without choices, with empty choices, with a choice without
\* delta, with a delta without content, and a text that is not JSON.
Payloads ==
  { <<"{", "a", "}">>, <<" ", "{", "b", "}">>, <<"null">>, <<"7">>, <<"{}">>,
    <<"E">>, <<"D">>, <<"F">>, <<"{", "a">> }

RECURSIVE Frames(_)
Frames(payloads) ==
  IF payloads = <<>> THEN <<>> ELSE Frame(Head(payloads)) \o Frames(Tail(payloads))

DecoderWires ==
  { Frames(ps) \o Frame(<<"[DONE]">>) :
      ps \in UNION { [1..n -> Payloads] : n \in 0..MaxFrames } }

\* The longest body, in atoms: a frame has at most seven.
MaxDecoderWire == 7 * MaxFrames + 4

DecoderInit ==
  /\ argv = [stream |-> TRUE, file |-> "none"]
  /\ proc = "interactive"
  /\ exitCode = <<>>
  /\ stderr = <<>>
  /\ prompts = 1
  /\ nLines = 1
  /\ conversationHistory = <<UserMessage("hi")>>
  /\ fileMessages = <<>>
  /\ \E wire \in DecoderWires :
       turns = <<[NewTurn(FALSE, <<UserMessage("hi")>>) EXCEPT
                    !.pc = "stream", !.body = wire, !.wire = wire]>>
  /\ nToolCalls = 0
  /\ dispatchLog = <<>>
  /\ spawned = <<>>
  /\ fs = Files0

DecoderNext ==
  \/ \E t \in 1..Len(turns), k \in 1..MaxDecoderWire : StreamRead(t, k)
  \/ \E t \in 1..Len(turns) : StreamEnds(t)
  \/ \E t \in 1..Len(turns) : StreamBreaks(t)

DecoderSpec == DecoderInit /\ [][DecoderNext]_vars

(***************************************************************************)
(* The tools under a session run with --no-stream: one user line has been  *)
(* read and its request is outstanding; the remote model answers with      *)
(* calls of read_file, edit_file and execute_command.                      *)
(***************************************************************************)
ToolFiles == Files0 @@ ("e" :> <<"a", "b", "a">>)

ReadCalls ==
  { [name |-> "read_file", arguments |-> Obj(<<<<"file_path", Str("f")>>>>)],
    [name |-> "read_file", arguments |-> Obj(<<<<"file_path", Str("e")>>>>)],
    [name |-> "read_file",
     arguments |-> Obj(<< <<"file_path", Str("f")>>, <<"offset", Num(1)>>, <<"limit", Num(1)>> >>)],
    [name |-> "read_file",
     arguments |-> Obj(<< <<"file_path", Str("f")>>, <<"offset", Num(4)>>, <<"limit", Num(2)>> >>)] }

EditCalls ==
  { [name |-> "edit_file",
     arguments |-> Obj(<< <<"file_path", Str("e")>>, <<"old_string", Str(o)>>,
                          <<"new_string", Str(n)>> >>)] :
      o \in {"a", "z"}, n \in {"c", "$&", "$$", ""} }
  \cup
  { [name |-> "edit_file",
     arguments |-> Obj(<< <<"file_path", Str("g")>>, <<"old_string", Str("a")>>,
                          <<"new_string", Str("c")>> >>)],
    [name |-> "edit_file",
     arguments |-> Obj(<< <<"file_path", Str("e")>>, <<"new_string", Str("c")>> >>)] }

CommandCalls ==
  { [name |-> "execute_command", arguments |-> Obj(<<<<"command", Str(c)>>>>)] :
      c \in {"ls", "rm f", "sudo ls", "rm -rf /", "chmod 777 f", "mkfs",
             "dd if=/dev/zero", ":(){ :|:& };:"} }

\* Calls whose arguments are null, the JSON text null, or a number.
NullArgCalls ==
  { [name |-> "read_file", arguments |-> Null],
    [name |-> "read_file", arguments |-> Num(5)],
    [name |-> "edit_file", arguments |-> Str("null")],
    [name |-> "execute_command", arguments |-> Null] }

ToolCalls == ReadCalls \cup EditCalls \cup CommandCalls \cup NullArgCalls

ToolInit ==
  /\ argv = [stream |-> FALSE, file |-> "none"]
  /\ proc = "interactive"
  /\ exitCode = <<>>
  /\ stderr = <<>>
  /\ prompts = 1
  /\ nLines = 1
  /\ conversationHistory = <<UserMessage("hi")>>
  /\ fileMessages = <<>>
  /\ turns = <<NewTurn(FALSE, <<UserMessage("hi")>>)>>
  /\ nToolCalls = 0
  /\ dispatchLog = <<>>
  /\ spawned = <<>>
  /\ fs = ToolFiles

ToolNext ==
  \/ \E t \in 1..Len(turns), fc \in ToolCalls, execOk \in BOOLEAN :
       ResponseToolCall(t, fc, Null, execOk)
  \/ \E t \in 1..Len(turns), ioOk \in BOOLEAN : ToolSettles(t, ioOk)
  \/ \E t \in 1..Len(turns), ioOk \in BOOLEAN : EditRead(t, ioOk)
  \/ \E t \in 1..Len(turns), ioOk \in BOOLEAN : EditWrite(t, ioOk)
  \/ \E t \in 1..Len(turns), content \in TextContents : ResponseText(t, content)
  \/ \E t \in 1..Len(turns), kind \in FailureKinds : RemoteFails(t, kind)

ToolSpec == ToolInit /\ [][ToolNext]_vars


(***************************************************************************)
(* Properties                                                              *)
(***************************************************************************)
Turns == 1..Len(turns)

\* The step re-invokes the API for turn t after a tool call.
Reinvokes(t) ==
  /\ turns[t].pc \in {"fetch", "tool", "edit_read", "edit_write"}
  /\ turns'[t].pc = "fetch"
  /\ turns'[t].round = turns[t].round + 1

BadArguments(fc) == fc.arguments.t = "string" /\ ~JSONParse(fc.arguments.s).ok

\* The value is an {error: <string>} result.
IsErrorResult(v) == v.t = "object" /\ Get(v, "error").t = "string"

\* C2: for a tool call whose rawArguments are a string that is not valid
\* JSON, processToolCall returns an {error: ...} result and does not raise:
\* its promise is fulfilled with the error, the turn is not aborted by the
\* catch, and the function message with the error is in the history.
C2_BadArgumentsBecomeErrorResult ==
  \A t \in Turns :
    (turns[t].functionCall # <<>> /\ BadArguments(turns[t].functionCall[1])) =>
      /\ turns[t].tool[1].state = "fulfilled"
      /\ IsErrorResult(turns[t].tool[1].value)
      /\ turns[t].ret # "catch" \/ turns[t].round >= 1

\* C3: for a tool name that is not one of the six registered tools,
\* processToolCall returns exactly {error: "Unknown tool: <name>"}, invokes
\* no implementation and does not throw.
C3_UnregisteredNameIsUnknownTool ==
  \A t \in Turns :
    (/\ turns[t].functionCall # <<>>
     /\ turns[t].functionCall[1].name \notin RegisteredTools
     /\ ~BadArguments(turns[t].functionCall[1])) =>
      /\ turns[t].tool[1].state = "fulfilled"
      /\ turns[t].tool[1].value = ErrorResult("Unknown tool: " \o turns[t].functionCall[1].name)
      /\ turns[t].tool[1].invoked = <<>>

\* C4: the decoder's result does not depend on how the stream is cut into
\* read chunks: when the stream has ended, the emitted increments and the
\* returned text are those of delivering the whole body in one chunk.
C4_ChunkingIndependent ==
  \A t \in Turns :
    turns[t].ret = "stream" =>
      /\ turns[t].emitted = ChunkEmits(turns[t].body)
      /\ turns[t].result = <<Str(Concat(ChunkEmits(turns[t].body)))>>

RECURSIVE UpToDone(_)
\* The blocks of a chunk up to and including the first end-of-stream frame.
UpToDone(lines) ==
  IF lines = <<>> THEN <<>>
  ELSE IF IsDone(Head(lines)) THEN <<Head(lines)>>
  ELSE <<Head(lines)>> \o UpToDone(Tail(lines))

\* C5: once the decoder has seen the frame data: [DONE] it stops consuming:
\* a read emits and accumulates nothing from the blocks that follow [DONE]
\* in its chunk, and nothing at all when an earlier chunk held [DONE].
C5_NothingAfterDone ==
  [][\A t \in Turns :
       (turns[t].pc = "stream" /\ turns'[t].pc = "stream"
        /\ Len(turns'[t].wire) < Len(turns[t].wire)) =>
         LET chunk == SubSeq(turns[t].wire, 1, Len(turns[t].wire) - Len(turns'[t].wire))
             allowed == IF turns[t].sawDone THEN <<>>
                        ELSE BlockTexts(UpToDone(Split(chunk)))
         IN /\ turns'[t].emitted = turns[t].emitted \o allowed
            /\ turns'[t].fullContent = turns[t].fullContent \o Concat(allowed)
     ]_vars


\* The message is part of a tool-call pair.
IsToolCallMessage(m) == m.role = "function" \/ "function_call" \in DOMAIN m

\* C6: in streaming mode no tool is dispatched, whatever the stream holds:
\* processToolCall is never invoked, no subprocess is spawned, no assistant
\* tool-call message or function message enters a history, and a turn whose
\* stream ends returns the accumulated text.
C6_StreamingNeverDispatches ==
  argv.stream =>
    /\ dispatchLog = <<>>
    /\ spawned = <<>>
    /\ \A i \in 1..Len(conversationHistory) : ~IsToolCallMessage(conversationHistory[i])
    /\ \A i \in 1..Len(fileMessages) : ~IsToolCallMessage(fileMessages[i])
    /\ \A t \in Turns :
         /\ turns[t].tool = <<>>
         /\ turns[t].functionCall = <<>>
         /\ turns[t].round = 0
         /\ turns[t].pc = "done" => turns[t].ret \in {"stream", "catch"}
         /\ turns[t].ret = "stream" =>
              turns[t].result = <<Str(Concat(turns[t].emitted))>>

\* A streaming turn has read a frame with a function_call signal and a text
\* frame, and returned the text.
C6_Witness ==
  /\ argv.stream
  /\ \E t \in Turns :
       /\ turns[t].ret = "stream"
       /\ \E i \in 1..Len(turns[t].body) : turns[t].body[i] = "F"
       /\ turns[t].result = <<Str("a")>>
       /\ conversationHistory = <<UserMessage("hi"), AssistantMessage(Str("a"))>>

\* The step ends turn t, an interactive turn, by the return named ret.
Ends(t, ret) ==
  /\ ~turns[t].file
  /\ turns[t].pc # "done"
  /\ turns'[t].pc = "done"
  /\ turns'[t].ret = ret

\* C7: an interactive turn that ends with a final text response, whatever
\* the text (the empty string included), appends exactly one assistant
\* message with that text as the last message of the history and returns
\* the text.
C7_FinalTextIsAppended ==
  [][\A t \in Turns :
       Ends(t, "text") =>
         /\ turns'[t].result = <<turns'[t].content>>
         /\ conversationHistory' =
              Append(conversationHistory, AssistantMessage(turns'[t].content))
     ]_vars

\* C8: when a remote call of an interactive turn fails (the first call or a
\* nested one after tool executions), the error is caught and reported,
\* callGeminiAPI returns null without throwing, the turn appends no
\* assistant message, and the session goes on: the process keeps running,
\* the prompt is shown again and the history is the one later turns use.
C8_TransportErrorAbortsTurnOnly ==
  [][\A t \in Turns :
       Ends(t, "catch") =>
         /\ turns'[t].result = <<Null>>
         /\ conversationHistory' = conversationHistory
         /\ Len(stderr') = Len(stderr) + 1
         /\ proc' = "interactive"
         /\ exitCode' = <<>>
         /\ prompts' = prompts + 1
     ]_vars

\* A turn failed in the remote call that followed a tool execution, and the
\* next turn got its answer appended after the failed turn's messages.
C8_Witness ==
  /\ Len(turns) = 2
  /\ turns[1].ret = "catch"
  /\ turns[1].round = 1
  /\ turns[1].tool[1].state = "fulfilled"
  /\ turns[2].ret = "text"
  /\ Len(conversationHistory) = 5
  /\ conversationHistory[3].role = "function"
  /\ conversationHistory[4] = UserMessage("hi")
  /\ conversationHistory[5] = AssistantMessage(Str("ok"))

\* C9: at most one user turn is in progress at any time.
C9_OneTurnAtATime ==
  Cardinality({t \in Turns : turns[t].pc # "done"}) <= 1

\* The health warning is on stderr.
HealthWarned == \E i \in 1..Len(stderr) : stderr[i] = HealthWarning[1]

\* C10: when the health probe answers api_initialized = false, no
\* interactive session starts: no prompt is shown and no turn or remote call
\* is made.
C10_NoSessionWithoutCredentials ==
  HealthWarned => (prompts = 0 /\ turns = <<>> /\ proc # "interactive")


\* a is a prefix of b.
IsPrefix(a, b) == Len(a) <= Len(b) /\ SubSeq(b, 1, Len(a)) = a

\* C11: the conversation history is empty when the session starts and is
\* append-only: every step leaves the history it found as a prefix of the
\* history it leaves (so every earlier value is a prefix of every later
\* one), whatever the step is: a line, a tool call, a response, an error, an
\* exit.
C11_HistoryIsAppendOnly ==
  [][/\ IsPrefix(conversationHistory, conversationHistory')
     /\ (proc = "probe" /\ proc' = "interactive") => conversationHistory' = <<>>
    ]_vars

\* A turn with a tool call and a final answer, then a turn that failed, then
\* the exit: the history holds all five messages in the order they came.
C11_Witness ==
  /\ proc = "exited"
  /\ Len(turns) = 2
  /\ turns[1].ret = "text" /\ turns[1].round = 1
  /\ turns[2].ret = "catch"
  /\ Len(conversationHistory) = 5
  /\ conversationHistory[1] = UserMessage("hi")
  /\ conversationHistory[3].role = "function"
  /\ conversationHistory[4] = AssistantMessage(Str("ok"))
  /\ conversationHistory[5] = UserMessage("hi")

\* Every function message of h has, somewhere before it, an assistant
\* message whose function_call names the same tool.
PrecededByCall(h) ==
  \A i \in 1..Len(h) :
    h[i].role = "function" =>
      \E j \in 1..(i - 1) :
        /\ h[j].role = "assistant"
        /\ "function_call" \in DOMAIN h[j]
        /\ h[j].function_call.name = h[i].name

\* C12: in every reachable history (the session's, the --file call's, and
\* every request body sent) each function message is preceded by an
\* assistant message whose tool-call reference names the same tool.
C12_ToolResultFollowsItsCall ==
  /\ PrecededByCall(conversationHistory)
  /\ PrecededByCall(fileMessages)
  /\ \A t \in Turns : PrecededByCall(turns[t].sent)

\* Two turns ran at the same time, each with one tool call: the history
\* holds both users' messages and then the two pairs.
C12_Witness ==
  /\ Len(turns) = 2
  /\ turns[1].round = 1 /\ turns[2].round = 1
  /\ Len(conversationHistory) >= 6
  /\ conversationHistory[2].role = "user"
  /\ conversationHistory[4].role = "function"
  /\ conversationHistory[4].name = "read_file"
  /\ conversationHistory[6].role = "function"
  /\ conversationHistory[6].name = "execute_command"

\* C19: the exit status is 1 when the process ends at launch, because the
\* proxy is unreachable or the --file target does not exist, and 0 when an
\* interactive session ends, by the exit command or by the close of the
\* input; ending the session makes no remote call and changes no history.
C19_ExitStatus ==
  [][(proc # "exited" /\ proc' = "exited") =>
       /\ proc = "probe" =>
            /\ exitCode' = <<1>>
            /\ \/ \E i \in 1..Len(stderr') :
                    stderr'[i] = "Error: Cannot connect to proxy server at http://localhost:8000"
               \/ /\ argv.file = "missing"
                  /\ stderr'[Len(stderr')] = "Error: File or directory not found: missing"
       /\ proc = "interactive" =>
            /\ exitCode' = <<0>>
            /\ conversationHistory' = conversationHistory
            /\ turns' = turns
    ]_vars

\* The exit command arrived while a turn was waiting for its response: the
\* process ended with status 0, no second turn, no prompt, no new message.
C19_Witness ==
  /\ proc = "exited"
  /\ exitCode = <<0>>
  /\ nLines = 2
  /\ prompts = 1
  /\ Len(turns) = 1
  /\ turns[1].pc = "fetch"
  /\ conversationHistory = <<UserMessage("hi")>>

\* C20: in an interactive session with the default options (streaming on,
\* no --file), a turn whose response asks for a call of read_file and that
\* ended normally has run the tool.
C20_DefaultSessionRunsRequestedTool ==
  (argv.stream /\ argv.file = "none") =>
    \A t \in Turns :
      (/\ turns[t].pc = "done"
       /\ turns[t].ret = "stream"
       /\ \E i \in 1..Len(turns[t].body) : turns[t].body[i] = "F") =>
        \E i \in 1..Len(dispatchLog) : dispatchLog[i] = "read_file"

\* The step issues a remote request for turn t: the first of a new turn or
\* a re-invocation after a tool call.
Requests(t) == t \notin 1..Len(turns) \/ Reinvokes(t)

\* C21: every remote request, the first of a turn and every re-invocation,
\* carries the full history as it is when the request is made (the messages
\* of all earlier turns and everything appended so far, in order) and the
\* complete tool catalog.
C21_RequestCarriesHistoryAndCatalog ==
  [][\A t \in 1..Len(turns') :
       Requests(t) =>
         /\ turns'[t].sent = IF turns'[t].file THEN fileMessages' ELSE conversationHistory'
         /\ turns'[t].tools = <<"read_file", "write_file", "edit_file", "list_directory",
                                "search_code", "execute_command">>
     ]_vars

\* The first request of a second turn is outstanding; it carries the five
\* messages of the session, the first turn's tool-call pair among them.
C21_Witness ==
  /\ Len(turns) = 2
  /\ turns[1].pc = "done" /\ turns[1].round = 1
  /\ turns[2].pc = "fetch" /\ turns[2].round = 0
  /\ Len(turns[2].sent) = 5
  /\ turns[2].sent = conversationHistory
  /\ turns[2].sent[3].role = "function"
  /\ Len(turns[2].tools) = 6

\* h holds an assistant message that carries the function call fc.
HoldsCall(h, fc) ==
  \E i \in 1..Len(h) :
    /\ h[i].role = "assistant"
    /\ "function_call" \in DOMAIN h[i]
    /\ h[i].function_call = fc

\* C22: the assistant message with the tool-call reference is appended
\* before the tool is dispatched: it is in the turn's history while the tool
\* runs, and it is there when the dispatch has failed.
C22_CallMessagePrecedesDispatch ==
  \A t \in Turns :
    /\ turns[t].pc \in {"tool", "edit_read", "edit_write"} =>
         HoldsCall(Messages(turns[t]), turns[t].functionCall[1])
    /\ (turns[t].tool # <<>> /\ turns[t].tool[1].state = "rejected") =>
         HoldsCall(Messages(turns[t]), turns[t].functionCall[1])

\* Every function message of h comes right after an assistant message whose
\* function_call names the same tool, and every assistant message with a
\* function_call is followed at once by its function message.
PairsAdjacent(h) ==
  \A i \in 1..Len(h) :
    /\ h[i].role = "function" =>
         /\ i > 1
         /\ h[i - 1].role = "assistant"
         /\ "function_call" \in DOMAIN h[i - 1]
         /\ h[i - 1].function_call.name = h[i].name
    /\ "function_call" \in DOMAIN h[i] =>
         /\ i < Len(h)
         /\ h[i + 1].role = "function"
         /\ h[i + 1].name = h[i].function_call.name

\* C25: the pairs are adjacent in the session's history, in the --file
\* call's messages and in every request sent, also while several turns are
\* in progress.
C25_ToolCallPairsAreAdjacent ==
  /\ PairsAdjacent(conversationHistory)
  /\ PairsAdjacent(fileMessages)
  /\ \A t \in Turns : PairsAdjacent(turns[t].sent)

\* A second line arrived while the first turn was waiting for its first
\* response; the second turn has made a tool call and the first, still
\* waiting, has not.
C25_Witness ==
  /\ Len(turns) = 2
  /\ turns[1].pc = "fetch" /\ turns[1].round = 0
  /\ turns[2].pc = "fetch" /\ turns[2].round = 1
  /\ Len(conversationHistory) = 4
  /\ conversationHistory[2].role = "user"
  /\ "function_call" \in DOMAIN conversationHistory[3]
  /\ conversationHistory[4].role = "function"

\* C26: messages of different turns never interleave: whenever an
\* interactive turn appends (its tool-call pair or its final answer), the
\* history is still exactly what the turn sent with its latest request, so
\* no other turn has appended since.
C26_TurnsDoNotInterleave ==
  [][\A t \in Turns :
       (~turns[t].file /\ (Reinvokes(t) \/ Ends(t, "text") \/ Ends(t, "stream"))
        /\ conversationHistory' # conversationHistory) =>
         conversationHistory = turns[t].sent
     ]_vars

CallArgs(t) == turns[t].functionCall[1].arguments

\* The turn's latest function call is a call of the tool name.
Calls(t, name) == turns[t].functionCall # <<>> /\ turns[t].functionCall[1].name = name

\* C15: execute_command never spawns a subprocess for a command string that
\* contains a deny-list entry as a substring: no command handed to execSync
\* contains one, and a call with such a command spawns nothing and returns
\* the error object that names the command.
C15_DenyListPrecedesSpawn ==
  /\ \A i \in 1..Len(spawned) :
       \A k \in 1..Len(forbiddenCommands) :
         ~Includes(Chars(spawned[i]), Chars(forbiddenCommands[k]))
  /\ \A t \in Turns :
       (/\ Calls(t, "execute_command")
        /\ Get(CallArgs(t), "command").t = "string"
        /\ \E k \in 1..Len(forbiddenCommands) :
              Includes(Chars(Get(CallArgs(t), "command").s), Chars(forbiddenCommands[k]))) =>
         /\ turns[t].tool[1].state = "fulfilled"
         /\ turns[t].tool[1].spawn = <<>>
         /\ turns[t].tool[1].value =
              Obj(<<<<"error", Str("Command not allowed for security reasons: "
                                   \o Get(CallArgs(t), "command").s)>>>>)

\* A deny-listed command was refused after another command had been spawned.
C15_Witness ==
  /\ spawned = <<"rm f">>
  /\ \E t \in Turns :
       /\ Calls(t, "execute_command")
       /\ Get(CallArgs(t), "command") = Str("rm -rf /")
       /\ IsErrorResult(turns[t].tool[1].value)

\* The step ends a call of edit_file of turn t (lines 177-196 follow it).
EditCompletes(t) ==
  /\ Reinvokes(t)
  /\ turns'[t].functionCall[1].name = "edit_file"

\* C16: edit_file performs no write when it fails: when the file is missing
\* or old_string does not occur in it, the call never reaches the write, its
\* result is an error object, and every file is what it was.
C16_FailedEditWritesNothing ==
  [][\A t \in Turns :
       (EditCompletes(t)
        /\ Get(turns'[t].functionCall[1].arguments, "file_path").t = "string") =>
         LET args == turns'[t].functionCall[1].arguments
             path == Get(args, "file_path").s
             old == Get(args, "old_string")
             absent == \/ path \notin DOMAIN fs
                       \/ old.t = "string" /\ ~Includes(fs[path], Chars(old.s))
         IN absent =>
              /\ turns[t].pc # "edit_write"
              /\ IsErrorResult(turns'[t].tool[1].value)
              /\ fs' = fs
     ]_vars

\* An edit has changed the file, and a later edit whose old_string does not
\* occur in it has failed and left it as it was.
C16_Witness ==
  /\ fs["e"] = <<"c", "b", "a">>
  /\ \E t \in Turns :
       /\ Calls(t, "edit_file")
       /\ Get(CallArgs(t), "old_string") = Str("z")
       /\ turns[t].tool[1].state = "fulfilled"
       /\ turns[t].tool[1].value = ErrorResult("Text not found in file: z")

\* content with the first occurrence of old_string replaced by new_string
\* taken literally.
LiteralReplaceFirst(content, old_string, new_string) ==
  LET at == IndexOf(content, old_string) IN
  SubSeq(content, 1, at) \o new_string
    \o SubSeq(content, at + Len(old_string) + 1, Len(content))

\* C17: a successful edit_file leaves the file equal to the old content with
\* the first occurrence of old_string replaced by the literal new_string
\* (whatever '$' sequences new_string holds), and every other file as it was.
C17_EditReplacesFirstLiterally ==
  [][\A t \in Turns :
       (EditCompletes(t) /\ ~IsErrorResult(turns'[t].tool[1].value)) =>
         LET args == turns'[t].functionCall[1].arguments
             path == Get(args, "file_path").s
         IN fs' = [fs EXCEPT ![path] =
                     LiteralReplaceFirst(fs[path], Chars(Get(args, "old_string").s),
                                         Chars(Get(args, "new_string").s))]
     ]_vars

\* The lines of a text: a newline ends a line, so a text that ends with a
\* newline has no further, empty line after it.
TrueLines(content) ==
  IF content = <<>> THEN <<>>
  ELSE IF content[Len(content)] = "\n" THEN SplitLines(SubSeq(content, 1, Len(content) - 1))
  ELSE SplitLines(content)

\* C18: read_file with offset o and limit l returns min(l, total - o) lines
\* (none when that is negative), numbered consecutively from o + 1;
\* total_lines is the file's true line count and displayed_lines the number
\* of lines returned.
C18_ReadFileCountsLines ==
  \A t \in Turns :
    (/\ Calls(t, "read_file")
     /\ turns[t].tool[1].state = "fulfilled"
     /\ Get(turns[t].tool[1].value, "total_lines").t = "number") =>
      LET value == turns[t].tool[1].value
          lines == TrueLines(fs[Get(CallArgs(t), "file_path").s])
          o == OrDefault(Get(CallArgs(t), "offset"), Num(0)).n
          l == OrDefault(Get(CallArgs(t), "limit"), Num(DefaultLimit)).n
          n == Max(0, Min(l, Len(lines) - o))
          numbered == [i \in 1..n |-> PadStart(ToString(o + i), 6) \o "  "
                                        \o Concat(lines[o + i])]
      IN /\ Get(value, "total_lines") = Num(Len(lines))
         /\ Get(value, "displayed_lines") = Num(n)
         /\ Get(value, "content").s = JoinWith(numbered, "\n")


(***************************************************************************)
(* Properties of the decoder (DecoderSpec)                                 *)
(***************************************************************************)
\* The text of a block that is a well-formed text frame: the prefix, optional
\* white space, a JSON object whose choices[0].delta.content is a non-empty
\* string, optional white space.  "" for every other block.
TextOfBlock(block) ==
  LET ends == {<<i, j>> \in (1..Len(block)) \X (1..Len(block)) :
                 /\ i >= 2 /\ j > i + 1
                 /\ block[1] = "data:"
                 /\ \A k \in 2..(i - 1) : block[k] \in Whitespace
                 /\ block[i] = "{" /\ block[j] = "}"
                 /\ \A k \in (i + 1)..(j - 1) : block[k] \in ContentChars
                 /\ \A k \in (j + 1)..Len(block) : block[k] \in Whitespace}
  IN IF ends = {} THEN ""
     ELSE LET e == CHOOSE e \in ends : TRUE IN Concat(SubSeq(block, e[1] + 1, e[2] - 1))

RECURSIVE TextsOfBlocks(_)
\* The texts of the well-formed text frames among the blocks, in order.
TextsOfBlocks(blocks) ==
  IF blocks = <<>> THEN <<>>
  ELSE (IF TextOfBlock(Head(blocks)) = "" THEN <<>> ELSE <<TextOfBlock(Head(blocks))>>)
       \o TextsOfBlocks(Tail(blocks))

\* The step is a read of turn t's stream; Chunk(t) is what it delivered.
Reads(t) ==
  /\ turns[t].pc = "stream"
  /\ turns'[t].pc = "stream"
  /\ Len(turns'[t].wire) < Len(turns[t].wire)

Chunk(t) == SubSeq(turns[t].wire, 1, Len(turns[t].wire) - Len(turns'[t].wire))

\* C13: a frame that is not valid JSON, or is JSON without the
\* choices[0].delta.content shape, is dropped silently: in every read, what
\* is emitted and what is added to the accumulator are exactly the texts of
\* the well-formed text frames of the chunk, in order, whatever other frames
\* stand before or between them, and nothing is reported; the decode is
\* aborted by a failure of the connection only.
C13_MalformedFramesAreDropped ==
  [][\A t \in Turns :
       /\ Reads(t) =>
            LET texts == TextsOfBlocks(Split(Chunk(t))) IN
            /\ turns'[t].emitted = turns[t].emitted \o texts
            /\ turns'[t].fullContent = turns[t].fullContent \o Concat(texts)
            /\ stderr' = stderr
       /\ (turns[t].pc = "stream" /\ turns'[t].ret = "catch") =>
            stderr' = Append(stderr, "Error: Premature close")
     ]_vars

\* A stream whose first frame is the JSON text null and whose second is a
\* text frame has ended, and the text of the second frame was returned.
C13_Witness ==
  \E t \in Turns :
    /\ turns[t].body = Frame(<<"null">>) \o Frame(<<"{", "a", "}">>) \o Frame(<<"[DONE]">>)
    /\ turns[t].ret = "stream"
    /\ turns[t].emitted = <<"a">>
    /\ turns[t].result = <<Str("a")>>

\* The body is well-formed text frames and then the end-of-stream frame.
TextFramesThenDone(body) ==
  LET blocks == Split(body) IN
  /\ Len(blocks) >= 3
  /\ blocks[Len(blocks)] = <<>>
  /\ blocks[Len(blocks) - 1] = <<"data:", "[DONE]">>
  /\ \A i \in 1..(Len(blocks) - 2) : TextOfBlock(blocks[i]) # ""

\* C14: for a stream of well-formed text frames ended by [DONE], the
\* decoder has emitted each frame's text, in stream order, by the time it
\* returns, and returns the concatenation of the emitted texts.
C14_TextFramesAreEmittedInOrder ==
  \A t \in Turns :
    (turns[t].ret = "stream" /\ TextFramesThenDone(turns[t].body)) =>
      /\ turns[t].emitted = TextsOfBlocks(Split(turns[t].body))
      /\ turns[t].result = <<Str(Concat(turns[t].emitted))>>


(***************************************************************************)
(* Properties of the dispatcher and of the tool-call loop (ToolSpec)       *)
(***************************************************************************)
\* C23: a turn ends only when a remote call answers with plain text or
\* fails, never because of the number of tool calls it has made: an ended
\* turn returned by the text branch, after a response without function
\* call, or by the catch; a turn whose tool has finished has issued its next
\* request, whatever its round.
C23_TurnEndsOnlyOnTextOrFailure ==
  \A t \in Turns :
    /\ turns[t].pc = "done" =>
         /\ turns[t].ret \in {"text", "catch"}
         /\ turns[t].ret = "text" =>
              (turns[t].functionCall = <<>> /\ turns[t].result = <<turns[t].content>>)
         /\ turns[t].ret = "catch" => turns[t].result = <<Null>>
    /\ (turns[t].pc # "done" /\ turns[t].tool # <<>>
        /\ turns[t].tool[1].state = "fulfilled") =>
         (turns[t].pc = "fetch" /\ turns[t].round >= 1)

\* The turn has made as many tool calls as the remote model asked for in
\* the run and waits for the next response.
C23_Witness ==
  \E t \in Turns :
    /\ turns[t].pc = "fetch"
    /\ turns[t].round = MaxRounds
    /\ Len(turns[t].sent) = 1 + 2 * MaxRounds

\* C24: for a registered tool whose arguments parse, processToolCall never
\* rejects; when the arguments are null, so that the implementation throws
\* before its own try block, the result is an {error: <message>} object and
\* the function message with that object is the last message of the next
\* request.
C24_ImplementationErrorsBecomeResults ==
  \A t \in Turns :
    (/\ turns[t].functionCall # <<>>
     /\ turns[t].functionCall[1].name \in RegisteredTools
     /\ ~BadArguments(turns[t].functionCall[1])) =>
      LET fc == turns[t].functionCall[1]
          parsedArgs == IF fc.arguments.t = "string" THEN JSONParse(fc.arguments.s).value
                        ELSE fc.arguments
          p == turns[t].tool[1]
      IN /\ p.state # "rejected"
         /\ parsedArgs.t = "null" =>
              /\ p.state = "fulfilled"
              /\ IsErrorResult(p.value)
              /\ turns[t].round >= 1
              /\ turns[t].sent[Len(turns[t].sent)] =
                   [role |-> "function", name |-> fc.name,
                    content |-> Str(Stringify(p.value))]

\* read_file was called with null arguments; the error of the destructuring
\* is the content of the function message of the request that followed.
C24_Witness ==
  \E t \in Turns :
    /\ Calls(t, "read_file")
    /\ CallArgs(t) = Null
    /\ turns[t].pc = "fetch"
    /\ turns[t].tool[1].value =
         Obj(<<<<"error", Str("Tool execution error: Cannot destructure property 'file_path' of 'object null' as it is null.")>>>>)
    /\ turns[t].sent[Len(turns[t].sent)].role = "function"

====
